---- MODULE Spec2Model ----
(***************************************************************************)
(* Model of package jsonpatcher (go-textile-threads): the JSON-patch       *)
(* EventCodec.  jsonPatcher.Create translates Actions into patchEvents,    *)
(* jsonPatcher.Reduce replays patchEvents into a transactional datastore.  *)
(*                                                                         *)
(* JSON bytes are modelled by their token structure: an object is the      *)
(* SEQUENCE of its <<field, value>> members in textual order, so that two  *)
(* byte strings holding the same object in a different field order are     *)
(* different values.  "bad" stands for bytes that are not JSON.            *)
(***************************************************************************)
EXTENDS Integers, Sequences, FiniteSets, TLC

VARIABLES
    store,      \* the datastore's committed content: Keys -> bytes or Absent
    txn,        \* the open transaction's write buffer: Keys -> bytes, Absent (deleted) or Untouched
    txnState,   \* "none" | "open" | "committed" | "discarded"
    pc,         \* position of Reduce: "idle" | "loop" (in the for loop, or at Commit after it) | "done"
    events,     \* Reduce's argument events
    i,          \* Reduce's loop index (1-based)
    actions,    \* Reduce's local slice actions, the entries filled so far
    ret,        \* what the last call returned
    pre,        \* the store when the running Reduce call started
    prevOk,     \* the running Reduce call repeats the events of the call before it, which succeeded
    storeFault, \* a datastore call of the running Reduce call returned an error of the store's own
    cActions,   \* jsonPatcher.Create's argument actions
    cRet,       \* what the last Create call returned (or that it panicked)
    jsonMode,   \* jsonPatcher.jsonMode
    other,      \* the registers of a second Reduce call, running concurrently and not scheduled now
    last,       \* Keys -> the kind of the last event committed on the key, as noted when the call returned
    stamps      \* what Time() returned for each of events

vars == <<store, txn, txnState, pc, events, i, actions, ret, pre, prevOk, storeFault, cActions, cRet, jsonMode,
          other, last, stamps>>

\* What the steps of one sequential Reduce or Create call leave alone.
aside == <<other, last, stamps>>

(***************************************************************************)
(* Bounds of the model.                                                    *)
(***************************************************************************)
MaxEvents == 2           \* longest event list handed to Reduce
MaxActions == 2          \* longest action list handed to Create
MaxTime == 2             \* time.Now() reads one of 1..MaxTime

(***************************************************************************)
(* operationType (iota) and an out-of-range value.                         *)
(***************************************************************************)
create == 0
save == 1
delete == 2
unknownType == delete + 1

\* core.ActionType as the caller passes it; "Other" is any value the switch does not list.
CoreCreate == "Create"
CoreSave == "Save"
CoreDelete == "Delete"
CoreOther == "Other"

errSavingNonExistentInstance == "can't save nonexistent instance"
errCantCreateExistingInstance == "cant't create already existent instance"
errUnknownOperation == "unknown operation type"
errUnrecognizedEvent == "event unrecognized for jsonpatcher eventcodec"
errReducingCreate == "error when reducing create event"
errReducingSave == "error when reducing save event"
\* The errors the datastore returns, one value per call that can fail.
errBegin == "datastore: NewTransaction failed"
errRead == "datastore: Has or Get failed"
errWrite == "datastore: Put or Delete failed"
errCommit == "datastore: Commit failed"
errMarshal == "json: unsupported type"
errBadJSONDoc == "Invalid JSON Document"
errBadJSONPatch == "Invalid JSON Patch"
errWrap == "cbor wrap error"
panicUnknownAction == "unkown action type"
panicTypeAssertion == "interface conversion"
NoErr == "nil"
Nil == [t |-> "nil"]
NilSlice == [nil |-> TRUE, v |-> << >>]
Slice(s) == [nil |-> FALSE, v |-> s]

(***************************************************************************)
(* JSON values as bytes.                                                   *)
(***************************************************************************)
Fields == {"a", "b"}
FieldOrder == <<"a", "b">>          \* sort order of the field names

Num(n) == [t |-> "num", n |-> n]
Null == [t |-> "null"]
ObjB(m) == [t |-> "obj", m |-> m]
JStr == [t |-> "string"]            \* a JSON string literal
Bad == [t |-> "bad"]                \* bytes that are not JSON
Missing == [t |-> "missing"]

\* The value a decoder finds under field k of members m (the last one wins).
Lookup(m, k) ==
    LET js == {j \in DOMAIN m : m[j][1] = k}
    IN IF js = {} THEN Missing
       ELSE m[CHOOSE j \in js : \A h \in js : h <= j][2]

\* json.Unmarshal of an object into a map: field -> value bytes (Missing if not a member).
AsDoc(m) == [k \in Fields |-> Lookup(m, k)]

\* json.Marshal of a map: the members in sorted field order.
Marshal(d) ==
    LET ks == SelectSeq(FieldOrder, LAMBDA k : d[k] # Missing)
    IN [j \in 1..Len(ks) |-> <<ks[j], d[ks[j]]>>]

NonEmpty(d) == \E k \in Fields : d[k] # Missing

\* The JSON value the bytes denote, field order forgotten (structural equality).
RECURSIVE Struct(_)
Struct(v) ==
    IF v.t = "obj"
    THEN [t |-> "obj",
          o |-> [k \in Fields |-> IF Lookup(v.m, k) = Missing THEN Missing
                                  ELSE Struct(Lookup(v.m, k))]]
    ELSE v

\* json.Marshal(json.Unmarshal(v)) through interface{}: sorted at every level.
RECURSIVE Canon(_)
Canon(v) ==
    IF v.t = "obj"
    THEN ObjB(Marshal([k \in Fields |-> IF Lookup(v.m, k) = Missing THEN Missing
                                       ELSE Canon(Lookup(v.m, k))]))
    ELSE v

\* A null occurs in v (at any object depth).
RECURSIVE HasNull(_)
HasNull(v) ==
    \/ v.t = "null"
    \/ /\ v.t = "obj"
       /\ \E j \in DOMAIN v.m : HasNull(v.m[j][2])

(***************************************************************************)
(* jsonpatch.MergePatch (RFC 7396 apply), as Reduce calls it.              *)
(***************************************************************************)
RECURSIVE pruneNulls(_)
pruneNulls(v) ==
    IF v.t = "obj"
    THEN ObjB(Marshal([k \in Fields |->
                 LET x == Lookup(v.m, k)
                 IN IF x = Missing \/ x.t = "null" THEN Missing ELSE pruneNulls(x)]))
    ELSE v

RECURSIVE mergeDocs(_, _)
mergeDocs(doc, patch) ==
    [k \in Fields |->
        LET v == patch[k]
            cur == doc[k]
        IN IF v = Missing THEN cur
           ELSE IF v.t = "null" THEN Missing
           ELSE IF cur = Missing \/ cur.t = "null" THEN pruneNulls(v)
           ELSE IF cur.t # "obj" THEN pruneNulls(v)
           ELSE IF v.t # "obj" THEN v
           ELSE ObjB(Marshal(mergeDocs(AsDoc(cur.m), AsDoc(v.m))))]

\* The members of m up to the first one that is out of sorted field order.
SortedPrefix(m) ==
    LET pos(k) == CHOOSE j \in DOMAIN FieldOrder : FieldOrder[j] = k
        ok(n) == \A j \in 1..(n - 1) : pos(m[j][1]) < pos(m[j + 1][1])
    IN SubSeq(m, 1, CHOOSE n \in 0..Len(m) : ok(n) /\ \A h \in 0..Len(m) : ok(h) => h <= n)

\* Mutant: the document is walked as if its fields came in sorted order.
MergePatchSortedWalk(docData, patchData) ==
    IF docData.t \in {"bad", "nil", "null"} THEN [err |-> errBadJSONDoc, val |-> Nil]
    ELSE IF patchData.t \in {"bad", "nil", "null"} THEN [err |-> errBadJSONPatch, val |-> Nil]
    ELSE IF patchData.t # "obj" THEN [err |-> errBadJSONPatch, val |-> Nil]
    ELSE IF docData.t # "obj"
         THEN [err |-> NoErr, val |-> pruneNulls(patchData)]
    ELSE [err |-> NoErr,
          val |-> ObjB(Marshal(mergeDocs(AsDoc(SortedPrefix(docData.m)), AsDoc(patchData.m))))]

MergePatch(docData, patchData) ==
    IF docData.t \in {"bad", "nil", "null"} THEN [err |-> errBadJSONDoc, val |-> Nil]
    ELSE IF patchData.t \in {"bad", "nil", "null"} THEN [err |-> errBadJSONPatch, val |-> Nil]
    ELSE IF patchData.t # "obj" THEN [err |-> errBadJSONPatch, val |-> Nil]
    ELSE IF docData.t # "obj"
         THEN [err |-> NoErr, val |-> pruneNulls(patchData)]   \* not a doc: turns into the patch
    ELSE [err |-> NoErr,
          val |-> ObjB(Marshal(mergeDocs(AsDoc(docData.m), AsDoc(patchData.m))))]

(***************************************************************************)
(* jsonpatch.CreateMergePatch (RFC 7396 diff), as saveEvent calls it.      *)
(***************************************************************************)
\* Mutant: fields that current no longer has are left out of the patch.
RECURSIVE getDiffNoDeletes(_, _)
getDiffNoDeletes(a, b) ==
    [k \in Fields |->
        LET av == a[k]
            bv == b[k]
        IN IF bv = Missing THEN Missing
           ELSE IF av = Missing THEN Canon(bv)
           ELSE IF av.t # bv.t THEN Canon(bv)
           ELSE IF av.t = "obj"
                THEN LET dst == getDiffNoDeletes(AsDoc(av.m), AsDoc(bv.m))
                     IN IF NonEmpty(dst) THEN ObjB(Marshal(dst)) ELSE Missing
           ELSE IF av.t = "null" THEN Missing
           ELSE IF av = bv THEN Missing ELSE bv]

RECURSIVE getDiff(_, _)
getDiff(a, b) ==
    [k \in Fields |->
        LET av == a[k]
            bv == b[k]
        IN IF bv = Missing
           THEN (IF av = Missing THEN Missing ELSE Null)      \* deleted values as nil
           ELSE IF av = Missing THEN Canon(bv)                \* value was added
           ELSE IF av.t # bv.t THEN Canon(bv)                 \* types have changed
           ELSE IF av.t = "obj"
                THEN LET dst == getDiff(AsDoc(av.m), AsDoc(bv.m))
                     IN IF NonEmpty(dst) THEN ObjB(Marshal(dst)) ELSE Missing
           ELSE IF av.t = "null" THEN Missing                 \* both nil
           ELSE IF av = bv THEN Missing ELSE bv]

\* json.Unmarshal into map[string]interface{}: null gives the nil map, read as empty.
AsMap(v) == IF v.t = "null" THEN [k \in Fields |-> Missing] ELSE AsDoc(v.m)

CreateMergePatch(originalJSON, modifiedJSON) ==
    IF ~(originalJSON.t \in {"obj", "null"}) \/ ~(modifiedJSON.t \in {"obj", "null"})
    THEN [err |-> errBadJSONDoc, val |-> Nil]
    ELSE [err |-> NoErr,
          val |-> ObjB(Marshal(getDiff(AsMap(originalJSON), AsMap(modifiedJSON))))]

(***************************************************************************)
(* The values an Action carries in Previous and Current (interface{}).     *)
(***************************************************************************)
StrPtr(b) == [t |-> "str", b |-> b]       \* a *string holding the text b
ByteSlice(b) == [t |-> "bytes", b |-> b]  \* a []byte holding b
GoVal(b) == [t |-> "go", b |-> b]         \* a Go value json.Marshal renders as b
GoChan == [t |-> "chan"]                  \* a Go value json.Marshal rejects

\* json.Marshal(v)
jsonMarshal(v) ==
    IF v.t = "go" THEN [err |-> NoErr, val |-> v.b]
    ELSE IF v.t = "chan" THEN [err |-> errMarshal, val |-> Nil]
    ELSE IF v.t = "nil" THEN [err |-> NoErr, val |-> Null]
    ELSE [err |-> NoErr, val |-> JStr]

Op(type, id, patch) == [Type |-> type, EntityID |-> id, JSONPatch |-> patch]
NoOp == Op(create, "", Nil)
Translated(op) == [panic |-> NoErr, err |-> NoErr, op |-> op]
Failed(e) == [panic |-> NoErr, err |-> e, op |-> NoOp]
Panicked(msg) == [panic |-> msg, err |-> NoErr, op |-> NoOp]

createEvent(id, v, jm) ==
    IF jm
    THEN IF v.t = "str" THEN Translated(Op(create, id, v.b))
         ELSE Panicked(panicTypeAssertion)
    ELSE LET r == jsonMarshal(v)
         IN IF r.err # NoErr THEN Failed(r.err)
            ELSE Translated(Op(create, id, r.val))

saveEvent(id, prev, curr, jm) ==
    LET pb == IF jm THEN [err |-> NoErr, val |-> prev.b] ELSE jsonMarshal(prev)
        cb == IF jm THEN [err |-> NoErr, val |-> curr.b] ELSE jsonMarshal(curr)
    IN IF jm /\ (curr.t # "str" \/ prev.t # "bytes") THEN Panicked(panicTypeAssertion)
       ELSE IF pb.err # NoErr THEN Failed(pb.err)
       ELSE IF cb.err # NoErr THEN Failed(cb.err)
       ELSE LET jsonPatch == CreateMergePatch(pb.val, cb.val)
            IN IF jsonPatch.err # NoErr THEN Failed(jsonPatch.err)
               ELSE Translated(Op(save, id, jsonPatch.val))

\* Mutant: the Delete translator marks its operation as a save.
deleteEventAsSave(id) == Translated(Op(save, id, Nil))

deleteEvent(id) == Translated(Op(delete, id, Nil))

(***************************************************************************)
(* core.Action and patchEvent.                                             *)
(***************************************************************************)
Action(type, model, id, prev, curr) ==
    [Type |-> type, ModelName |-> model, EntityID |-> id, Previous |-> prev, Current |-> curr]

PatchEvent(ts, id, model, op) ==
    [codec |-> "jsonpatcher", Timestamp |-> ts, ID |-> id, ModelName |-> model, Patch |-> op]

\* An event of another codec: e.(patchEvent) fails on it.
ForeignEvent(id, model) ==
    [codec |-> "other", Timestamp |-> 0, ID |-> id, ModelName |-> model, Patch |-> NoOp]

\* Mutant: the default case returns an error like a failed translation does.
TranslateLenient(a, jm) ==
    IF a.Type = CoreCreate THEN createEvent(a.EntityID, a.Current, jm)
    ELSE IF a.Type = CoreSave THEN saveEvent(a.EntityID, a.Previous, a.Current, jm)
    ELSE IF a.Type = CoreDelete THEN deleteEvent(a.EntityID)
    ELSE Failed("unknown action type")

\* The switch of Create on actions[i].Type.
Translate(a, jm) ==
    IF a.Type = CoreCreate THEN createEvent(a.EntityID, a.Current, jm)
    ELSE IF a.Type = CoreSave THEN saveEvent(a.EntityID, a.Previous, a.Current, jm)
    ELSE IF a.Type = CoreDelete THEN deleteEvent(a.EntityID)
    ELSE Panicked(panicUnknownAction)

\* cbornode.WrapObject(revents, ...): the node holding the record.
WrapObject(patches) == [Patches |-> patches]

CreateReturn(evs, node, err, panic) ==
    [events |-> evs, node |-> node, err |-> err, panic |-> panic]

\* Mutant: on a translation error the events made so far are returned with it.
RECURSIVE CreateLoopPartial(_, _, _, _, _, _)
CreateLoopPartial(acts, jm, ts, wrapErr, k, acc) ==
    IF k > Len(acts)
    THEN IF wrapErr # NoErr
         THEN CreateReturn(NilSlice, Nil, wrapErr, NoErr)
         ELSE CreateReturn(Slice(acc), WrapObject(acc), NoErr, NoErr)
    ELSE LET r == Translate(acts[k], jm)
         IN IF r.panic # NoErr THEN CreateReturn(NilSlice, Nil, NoErr, r.panic)
            ELSE IF r.err # NoErr THEN CreateReturn(Slice(acc), Nil, r.err, NoErr)
            ELSE CreateLoopPartial(acts, jm, ts, wrapErr, k + 1,
                     Append(acc, PatchEvent(ts[k], acts[k].EntityID, acts[k].ModelName, r.op)))

\* The loop of Create from index k on, revents.Patches[1..k-1] being acc;
\* ts[k] is what time.Now() reads for the k-th event, wrapErr what WrapObject returns.
RECURSIVE CreateLoop(_, _, _, _, _, _)
CreateLoop(acts, jm, ts, wrapErr, k, acc) ==
    IF k > Len(acts)
    THEN IF wrapErr # NoErr
         THEN CreateReturn(NilSlice, Nil, wrapErr, NoErr)
         ELSE CreateReturn(Slice(acc), WrapObject(acc), NoErr, NoErr)
    ELSE LET r == Translate(acts[k], jm)
         IN IF r.panic # NoErr THEN CreateReturn(NilSlice, Nil, NoErr, r.panic)
            ELSE IF r.err # NoErr THEN CreateReturn(NilSlice, Nil, r.err, NoErr)
            ELSE CreateLoop(acts, jm, ts, wrapErr, k + 1,
                     Append(acc, PatchEvent(ts[k], acts[k].EntityID, acts[k].ModelName, r.op)))

Create(acts, jm, ts, wrapErr) == CreateLoop(acts, jm, ts, wrapErr, 1, << >>)

(***************************************************************************)
(* The datastore (ds.TxnDatastore) and its transaction (ds.Txn).           *)
(***************************************************************************)
BaseKey == "model"
Models == {"m1", "m2"}
Entities == {"e1", "e2"}
Instances == {<<"m1", "e1">>, <<"m2", "e2">>}

\* baseKey.ChildString(e.Model()).ChildString(e.EntityID().String())
Key(model, id) == <<BaseKey, model, id>>
Keys == {Key(inst[1], inst[2]) : inst \in Instances}

Absent == [t |-> "absent"]
Untouched == [t |-> "untouched"]
EmptyStore == [k \in Keys |-> Absent]
EmptyTxn == [k \in Keys |-> Untouched]

\* Mutant: reads go to the committed store, past the writes of the transaction.
txnViewCommitted(key) == store[key]

\* What the transaction reads under key: its own write, else the committed value.
txnView(key) == IF txn[key] = Untouched THEN store[key] ELSE txn[key]
txnHas(key) == txnView(key) # Absent
txnPut(key, value) == [txn EXCEPT ![key] = value]
txnDelete(key) == [txn EXCEPT ![key] = Absent]
\* txn.Commit(): every buffered write becomes visible at once.
txnCommit == [k \in Keys |-> IF txn[k] = Untouched THEN store[k] ELSE txn[k]]

\* Mutant: the outcome record with Model and EntityID exchanged.
ReduceActionSwapped(type, model, id) == [Type |-> type, Model |-> id, EntityID |-> model]

ReduceAction(type, model, id) == [Type |-> type, Model |-> model, EntityID |-> id]
ReduceResult(acts, err) == [actions |-> acts, err |-> err]
Pending == [actions |-> NilSlice, err |-> "pending"]

(***************************************************************************)
(* jsonPatcher.Reduce, one step per store interaction.                     *)
(***************************************************************************)
\* Mutant: the error path commits what the transaction holds instead of discarding it.
ReduceFailCommitting(err) ==
    /\ ret' = ReduceResult(NilSlice, err)
    /\ pc' = "done"
    /\ store' = txnCommit
    /\ txn' = EmptyTxn
    /\ txnState' = "committed"
    /\ UNCHANGED <<events, i, actions, pre, prevOk, storeFault, cActions, cRet, jsonMode>>

\* Mutant: the error return leaves the transaction open (no deferred Discard).
ReduceFailLeaking(err) ==
    /\ ret' = ReduceResult(NilSlice, err)
    /\ pc' = "done"
    /\ txn' = txn
    /\ txnState' = "open"
    /\ UNCHANGED <<store, events, i, actions, pre, prevOk, storeFault, cActions, cRet, jsonMode>>

\* return nil, err (the deferred txn.Discard() runs)
ReduceFail(err) ==
    /\ ret' = ReduceResult(NilSlice, err)
    /\ pc' = "done"
    /\ txn' = EmptyTxn
    /\ txnState' = "discarded"
    /\ UNCHANGED <<store, events, i, actions, pre, prevOk, storeFault, cActions, cRet, jsonMode>>

\* The same, err coming out of a failed datastore call.
ReduceStoreFail(err) ==
    /\ ret' = ReduceResult(NilSlice, err)
    /\ pc' = "done"
    /\ txn' = EmptyTxn
    /\ txnState' = "discarded"
    /\ storeFault' = TRUE
    /\ UNCHANGED <<store, events, i, actions, pre, prevOk, cActions, cRet, jsonMode>>

\* The loop body completed for events[i].
ReduceApplied(newTxn, act) ==
    /\ txn' = newTxn
    /\ actions' = Append(actions, act)
    /\ i' = i + 1
    /\ UNCHANGED <<store, txnState, pc, events, ret, pre, prevOk, storeFault, cActions, cRet, jsonMode>>

\* Reduce is called with events es; datastore.NewTransaction(false) returns beginErr.
ReduceCall(es, beginErr) ==
    /\ pc \in {"idle", "done"}
    /\ events' = es
    /\ pre' = store
    /\ prevOk' = (pc = "done" /\ ret.err = NoErr /\ events = es)
    /\ i' = 1
    /\ actions' = << >>
    /\ txn' = EmptyTxn
    /\ storeFault' = (beginErr # NoErr)
    /\ IF beginErr # NoErr
       THEN /\ ret' = ReduceResult(NilSlice, beginErr)
            /\ pc' = "done"
            /\ txnState' = "none"
       ELSE /\ ret' = Pending
            /\ pc' = "loop"
            /\ txnState' = "open"
    /\ UNCHANGED <<store, cActions, cRet, jsonMode>>

\* Mutant: no existence check before the Put.
ReduceCreateOverwrite(e, key, readErr, writeErr) ==
    IF readErr # NoErr THEN ReduceStoreFail(readErr)
    ELSE IF writeErr # NoErr THEN ReduceStoreFail(errReducingCreate)
    ELSE ReduceApplied(txnPut(key, e.Patch.JSONPatch),
                       ReduceAction(CoreCreate, e.ModelName, e.ID))

\* Mutant: the Put error of a create is returned as the store gave it.
ReduceCreatePassing(e, key, readErr, writeErr) ==
    IF readErr # NoErr THEN ReduceStoreFail(readErr)
    ELSE IF txnHas(key) THEN ReduceFail(errCantCreateExistingInstance)
    ELSE IF writeErr # NoErr THEN ReduceStoreFail(writeErr)
    ELSE ReduceApplied(txnPut(key, e.Patch.JSONPatch),
                       ReduceAction(CoreCreate, e.ModelName, e.ID))

\* Mutant: the error of a create on a present key names the model and the entity.
ReduceCreateNaming(e, key, readErr, writeErr) ==
    IF readErr # NoErr THEN ReduceStoreFail(readErr)
    ELSE IF txnHas(key)
         THEN ReduceFail(errCantCreateExistingInstance \o ": " \o e.ModelName \o "/" \o e.ID)
    ELSE IF writeErr # NoErr THEN ReduceStoreFail(errReducingCreate)
    ELSE ReduceApplied(txnPut(key, e.Patch.JSONPatch),
                       ReduceAction(CoreCreate, e.ModelName, e.ID))

\* case create; readErr and writeErr are what txn.Has and txn.Put return.
ReduceCreate(e, key, readErr, writeErr) ==
    IF readErr # NoErr THEN ReduceStoreFail(readErr)
    ELSE IF txnHas(key) THEN ReduceFail(errCantCreateExistingInstance)
    ELSE IF writeErr # NoErr THEN ReduceStoreFail(errReducingCreate)
    ELSE ReduceApplied(txnPut(key, e.Patch.JSONPatch),
                       ReduceAction(CoreCreate, e.ModelName, e.ID))

\* Mutant: a missing key is saved as if it held the empty object.
ReduceSaveUpsert(e, key, readErr, writeErr) ==
    IF readErr # NoErr THEN ReduceStoreFail(readErr)
    ELSE LET value == IF txnHas(key) THEN txnView(key) ELSE ObjB(<< >>)
             patchedValue == MergePatch(value, e.Patch.JSONPatch)
         IN IF patchedValue.err # NoErr THEN ReduceFail(errReducingSave)
            ELSE IF writeErr # NoErr THEN ReduceStoreFail(writeErr)
            ELSE ReduceApplied(txnPut(key, patchedValue.val),
                               ReduceAction(CoreSave, e.ModelName, e.ID))

\* Mutant: the patch itself is stored, not the patched value.
ReduceSaveOverwrite(e, key, readErr, writeErr) ==
    IF readErr # NoErr THEN ReduceStoreFail(readErr)
    ELSE IF ~txnHas(key) THEN ReduceFail(errSavingNonExistentInstance)
    ELSE LET patchedValue == MergePatch(txnView(key), e.Patch.JSONPatch)
         IN IF patchedValue.err # NoErr THEN ReduceFail(errReducingSave)
            ELSE IF writeErr # NoErr THEN ReduceStoreFail(writeErr)
            ELSE ReduceApplied(txnPut(key, e.Patch.JSONPatch),
                               ReduceAction(CoreSave, e.ModelName, e.ID))

\* case save; readErr and writeErr are what txn.Get and txn.Put return.
ReduceSave(e, key, readErr, writeErr) ==
    IF readErr # NoErr THEN ReduceStoreFail(readErr)
    ELSE IF ~txnHas(key) THEN ReduceFail(errSavingNonExistentInstance)   \* ds.ErrNotFound
    ELSE LET patchedValue == MergePatch(txnView(key), e.Patch.JSONPatch)
         IN IF patchedValue.err # NoErr THEN ReduceFail(errReducingSave)
            ELSE IF writeErr # NoErr THEN ReduceStoreFail(writeErr)
            ELSE ReduceApplied(txnPut(key, patchedValue.val),
                               ReduceAction(CoreSave, e.ModelName, e.ID))

\* Mutant: deleting a key that is not there is an error (ds.ErrNotFound).
ReduceDeleteStrict(e, key, writeErr) ==
    IF writeErr # NoErr THEN ReduceStoreFail(writeErr)
    ELSE IF ~txnHas(key) THEN ReduceFail("datastore: key not found")
    ELSE ReduceApplied(txnDelete(key), ReduceAction(CoreDelete, e.ModelName, e.ID))

\* Mutant: the delete is reported but txn.Delete is not called.
ReduceDeleteKeeping(e, key, writeErr) ==
    IF writeErr # NoErr THEN ReduceStoreFail(writeErr)
    ELSE ReduceApplied(txn, ReduceAction(CoreDelete, e.ModelName, e.ID))

\* Mutant: a delete of a key that is not there is a no-op, txn.Delete is not called.
ReduceDeleteIfPresent(e, key, writeErr) ==
    IF ~txnHas(key) THEN ReduceApplied(txn, ReduceAction(CoreDelete, e.ModelName, e.ID))
    ELSE IF writeErr # NoErr THEN ReduceStoreFail(writeErr)
    ELSE ReduceApplied(txnDelete(key), ReduceAction(CoreDelete, e.ModelName, e.ID))

\* case delete; writeErr is what txn.Delete returns.
ReduceDelete(e, key, writeErr) ==
    IF writeErr # NoErr THEN ReduceStoreFail(writeErr)
    ELSE ReduceApplied(txnDelete(key), ReduceAction(CoreDelete, e.ModelName, e.ID))

\* Mutant: an operation of unknown type is passed over and the replay goes on.
ReduceStepSkipping(readErr, writeErr) ==
    /\ pc = "loop"
    /\ i <= Len(events)
    /\ LET e == events[i]
           key == Key(e.ModelName, e.ID)
       IN IF e.codec # "jsonpatcher" THEN ReduceFail(errUnrecognizedEvent)
          ELSE IF e.Patch.Type = create THEN ReduceCreate(e, key, readErr, writeErr)
          ELSE IF e.Patch.Type = save THEN ReduceSave(e, key, readErr, writeErr)
          ELSE IF e.Patch.Type = delete THEN ReduceDelete(e, key, writeErr)
          ELSE ReduceApplied(txn, ReduceAction(CoreOther, e.ModelName, e.ID))
    /\ UNCHANGED aside

\* One iteration of the for loop, on events[i].
ReduceStep(readErr, writeErr) ==
    /\ pc = "loop"
    /\ i <= Len(events)
    /\ LET e == events[i]
           key == Key(e.ModelName, e.ID)
       IN IF e.codec # "jsonpatcher" THEN ReduceFail(errUnrecognizedEvent)
          ELSE IF e.Patch.Type = create THEN ReduceCreate(e, key, readErr, writeErr)
          ELSE IF e.Patch.Type = save THEN ReduceSave(e, key, readErr, writeErr)
          ELSE IF e.Patch.Type = delete THEN ReduceDelete(e, key, writeErr)
          ELSE ReduceFail(errUnknownOperation)
    /\ UNCHANGED aside

\* txn.Commit() after the loop, returning commitErr; then return actions, nil.
ReduceCommit(commitErr) ==
    /\ pc = "loop"
    /\ i > Len(events)
    /\ IF commitErr # NoErr
       THEN ReduceStoreFail(commitErr)
       ELSE /\ store' = txnCommit
            /\ txn' = EmptyTxn
            /\ txnState' = "committed"
            /\ ret' = ReduceResult(Slice(actions), NoErr)
            /\ pc' = "done"
            /\ UNCHANGED <<events, i, actions, pre, prevOk, storeFault, cActions, cRet, jsonMode>>
    /\ UNCHANGED aside

\* The call that returned is over: its result is dropped, its locals are gone.
ReduceOver ==
    /\ pc = "done"
    /\ pc' = "idle"
    /\ events' = << >>
    /\ i' = 1
    /\ actions' = << >>
    /\ ret' = Pending
    /\ pre' = store
    /\ prevOk' = FALSE
    /\ storeFault' = FALSE
    /\ txnState' = "none"
    /\ UNCHANGED <<store, txn, cActions, cRet, jsonMode>>

\* The caller drops the result of the call that returned.
ReduceReturn == ReduceOver /\ UNCHANGED aside

(***************************************************************************)
(* Inputs of Reduce.                                                       *)
(***************************************************************************)
DocA1 == ObjB(<< <<"a", Num(1)>> >>)
DocB2A1 == ObjB(<< <<"b", Num(2)>>, <<"a", Num(1)>> >>)      \* fields not in sorted order
PatchDelA == ObjB(<< <<"a", Null>> >>)
PatchSetB == ObjB(<< <<"b", Num(1)>> >>)

CreatePayloads == {DocA1, DocB2A1}
SavePatches == {PatchDelA, PatchSetB, Bad}
StoreErrs == {errBegin, errRead, errWrite, errCommit}
\* What a datastore call returns: nil or its error.
Returns(err) == {NoErr, err}

ReduceEvents ==
    {PatchEvent(1, inst[2], inst[1], Op(create, inst[2], p)) :
         inst \in Instances, p \in CreatePayloads}
    \cup {PatchEvent(1, inst[2], inst[1], Op(save, inst[2], p)) :
         inst \in Instances, p \in SavePatches}
    \cup {PatchEvent(1, inst[2], inst[1], Op(t, inst[2], Nil)) :
         inst \in Instances, t \in {delete, unknownType}}
    \cup {ForeignEvent("e1", "m1")}

EventLists == UNION {[1..n -> ReduceEvents] : n \in 0..MaxEvents}

NoCreateReturn == CreateReturn(NilSlice, Nil, "pending", NoErr)

\* The registers of one Reduce call, as they are when no call is running.
Registers(t, ts, p, es, k, acts, r, before, po, sf) ==
    [txn |-> t, txnState |-> ts, pc |-> p, events |-> es, i |-> k, actions |-> acts,
     ret |-> r, pre |-> before, prevOk |-> po, storeFault |-> sf]
NoCall == Registers(EmptyTxn, "none", "idle", << >>, 1, << >>, Pending, EmptyStore, FALSE, FALSE)
\* No event has been committed on any key.
NoHistory == [k \in Keys |-> "none"]

Init ==
    /\ store = EmptyStore
    /\ txn = EmptyTxn
    /\ txnState = "none"
    /\ pc = "idle"
    /\ events = << >>
    /\ i = 1
    /\ actions = << >>
    /\ ret = Pending
    /\ pre = EmptyStore
    /\ prevOk = FALSE
    /\ storeFault = FALSE
    /\ cActions = << >>
    /\ cRet = NoCreateReturn
    /\ jsonMode = FALSE
    /\ other = NoCall
    /\ last = NoHistory
    /\ stamps = << >>

\* The caller calls Reduce with a fresh event list.
ReduceNew ==
    /\ pc = "idle"
    /\ \E es \in EventLists, beginErr \in Returns(errBegin) : ReduceCall(es, beginErr)
    /\ UNCHANGED aside

\* The caller replays the event list of the call that just returned.
ReduceReplay ==
    /\ pc = "done"
    /\ \E beginErr \in Returns(errBegin) : ReduceCall(events, beginErr)
    /\ UNCHANGED aside

Next ==
    \/ ReduceNew
    \/ ReduceReplay
    \/ ReduceReturn
    \/ \E readErr \in Returns(errRead), writeErr \in Returns(errWrite) : ReduceStep(readErr, writeErr)
    \/ \E commitErr \in Returns(errCommit) : ReduceCommit(commitErr)

Spec == Init /\ [][Next]_vars

(***************************************************************************)
(* Inputs of Create, and the specification of the codec: a Create call,    *)
(* then Reduce of the events it returned into an empty datastore whose     *)
(* calls succeed (Spec is where they fail).                                *)
(***************************************************************************)
Times == 1..MaxTime
WrapErrs == {NoErr, errWrap}

CreateCurrents == {GoVal(DocA1), GoChan, StrPtr(DocB2A1), StrPtr(Bad)}
SavePairs ==
    {<<GoVal(DocA1), GoVal(DocB2A1)>>, <<GoVal(DocA1), GoChan>>, <<GoChan, GoVal(DocA1)>>,
     <<ByteSlice(DocA1), StrPtr(DocB2A1)>>, <<ByteSlice(Bad), StrPtr(DocA1)>>}

CoreActions ==
    {Action(CoreCreate, inst[1], inst[2], Nil, c) : inst \in Instances, c \in CreateCurrents}
    \cup {Action(CoreSave, inst[1], inst[2], pc2[1], pc2[2]) : inst \in Instances, pc2 \in SavePairs}
    \cup {Action(t, inst[1], inst[2], Nil, Nil) : inst \in Instances, t \in {CoreDelete, CoreOther}}

ActionLists == UNION {[1..n -> CoreActions] : n \in 0..MaxActions}

\* JSON objects of two levels: "a" holds a leaf, "b" a leaf or an object of leaves.
Leaves == {Num(1), Num(2), Null}
LeafObjects ==
    {ObjB(Marshal([k \in Fields |-> IF k = "a" THEN x ELSE y])) :
         x \in Leaves \cup {Missing}, y \in Leaves \cup {Missing}}
JSONObjects ==
    {ObjB(Marshal([k \in Fields |-> IF k = "a" THEN x ELSE y])) :
         x \in Leaves \cup {Missing}, y \in Leaves \cup LeafObjects \cup {Missing}}
    \cup {DocB2A1}

\* How a caller of the given mode hands over the JSON text b.
AsCurrent(b, jm) == IF jm THEN StrPtr(b) ELSE GoVal(b)
AsPrevious(b, jm) == IF jm THEN ByteSlice(b) ELSE GoVal(b)

\* An entity created as P and then saved as C.
CreateThenSave(P, C, jm) ==
    <<Action(CoreCreate, "m1", "e1", Nil, AsCurrent(P, jm)),
      Action(CoreSave, "m1", "e1", AsPrevious(P, jm), AsCurrent(C, jm))>>

\* Create is called with actions acts.
CreateCall(acts) ==
    /\ \E ts \in [1..Len(acts) -> Times], wrapErr \in WrapErrs :
          /\ cActions' = acts
          /\ cRet' = Create(acts, jsonMode, ts, wrapErr)
    /\ UNCHANGED <<store, txn, txnState, pc, events, i, actions, ret, pre, prevOk, storeFault, jsonMode>>
    /\ UNCHANGED aside

\* No call is running and none has returned yet.
Fresh == pc = "idle" /\ cRet = NoCreateReturn

CreateAny ==
    /\ Fresh
    /\ \E acts \in ActionLists : CreateCall(acts)

CreateSaved ==
    /\ Fresh
    /\ \E P \in JSONObjects, C \in JSONObjects : CreateCall(CreateThenSave(P, C, jsonMode))

\* The events Create returned are handed to Reduce.
ReduceCreated ==
    /\ pc = "idle"
    /\ cRet.err = NoErr
    /\ cRet.panic = NoErr
    /\ ReduceCall(cRet.events.v, NoErr)
    /\ UNCHANGED aside

InitCodec ==
    /\ store = EmptyStore
    /\ txn = EmptyTxn
    /\ txnState = "none"
    /\ pc = "idle"
    /\ events = << >>
    /\ i = 1
    /\ actions = << >>
    /\ ret = Pending
    /\ pre = EmptyStore
    /\ prevOk = FALSE
    /\ storeFault = FALSE
    /\ cActions = << >>
    /\ cRet = NoCreateReturn
    /\ jsonMode \in BOOLEAN
    /\ other = NoCall
    /\ last = NoHistory
    /\ stamps = << >>

NextCodec ==
    \/ CreateAny
    \/ CreateSaved
    \/ ReduceCreated
    \/ ReduceStep(NoErr, NoErr)
    \/ ReduceCommit(NoErr)

SpecCodec == InitCodec /\ [][NextCodec]_vars

(***************************************************************************)
(* The replay the specification describes, on a plain map and one event at *)
(* a time: what the claims compare Reduce with.                            *)
(***************************************************************************)
IsPatch(e, type) == e.codec = "jsonpatcher" /\ e.Patch.Type = type
KeyOf(e) == Key(e.ModelName, e.ID)
KindOf(e) ==
    IF e.Patch.Type = create THEN CoreCreate
    ELSE IF e.Patch.Type = save THEN CoreSave
    ELSE CoreDelete

RefOk(s) == [ok |-> TRUE, store |-> s, err |-> NoErr]
RefErr(s, err) == [ok |-> FALSE, store |-> s, err |-> err]

RefApply(s, e) ==
    IF IsPatch(e, create)
    THEN IF s[KeyOf(e)] # Absent THEN RefErr(s, errCantCreateExistingInstance)
         ELSE RefOk([s EXCEPT ![KeyOf(e)] = e.Patch.JSONPatch])
    ELSE IF IsPatch(e, save)
    THEN IF s[KeyOf(e)] = Absent THEN RefErr(s, errSavingNonExistentInstance)
         ELSE LET r == MergePatch(s[KeyOf(e)], e.Patch.JSONPatch)
              IN IF r.err # NoErr THEN RefErr(s, errReducingSave)
                 ELSE RefOk([s EXCEPT ![KeyOf(e)] = r.val])
    ELSE IF IsPatch(e, delete) THEN RefOk([s EXCEPT ![KeyOf(e)] = Absent])
    ELSE IF e.codec # "jsonpatcher" THEN RefErr(s, errUnrecognizedEvent)
    ELSE RefErr(s, errUnknownOperation)

\* The events es[1..n] applied to s in order, stopping at the first that fails.
RECURSIVE RefRun(_, _, _)
RefRun(s, es, n) ==
    IF n = 0 THEN RefOk(s)
    ELSE LET r == RefRun(s, es, n - 1)
         IN IF r.ok THEN RefApply(r.store, es[n]) ELSE r

ReduceReturned == pc = "done"
ReduceSucceeded == pc = "done" /\ ret.err = NoErr
ReduceFailed == pc = "done" /\ ret.err # NoErr
\* The replay reaches event k, with key present (or absent) at that point.
ReachedWith(k, present) ==
    LET r == RefRun(pre, events, k - 1)
    IN r.ok /\ ((r.store[KeyOf(events[k])] # Absent) = present)

(***************************************************************************)
(* C1: Reduce is all-or-nothing.  Until Commit succeeds the store is what  *)
(* it was when the call started, and a call that returns an error (of an   *)
(* event or of the store, a failed Commit included) leaves the store as it *)
(* was and returns the nil slice.                                          *)
(***************************************************************************)
C1_AllOrNothing ==
    /\ pc = "loop" => store = pre
    /\ ReduceFailed => store = pre /\ ret.actions = NilSlice

\* Scenario E: [Create(A), Save(B)] with B missing fails and A is absent afterwards.
C1_Witness ==
    /\ ReduceFailed
    /\ Len(events) = 2
    /\ IsPatch(events[1], create)
    /\ IsPatch(events[2], save)
    /\ ret.err = errSavingNonExistentInstance
    /\ pre[KeyOf(events[1])] = Absent
    /\ store[KeyOf(events[1])] = Absent

(***************************************************************************)
(* C2: a Create whose key is present when the replay reaches it makes the  *)
(* call fail and leaves the stored value unchanged; the error is           *)
(* errCantCreateExistingInstance whenever no datastore call failed.  A     *)
(* second Reduce of a Create that succeeded fails that way.                *)
(***************************************************************************)
C2_CreateOnExisting ==
    ReduceReturned =>
        \A k \in 1..Len(events) :
            (IsPatch(events[k], create) /\ ReachedWith(k, TRUE)) =>
                /\ ReduceFailed
                /\ store[KeyOf(events[k])] = pre[KeyOf(events[k])]
                /\ ~storeFault => ret.err = errCantCreateExistingInstance

\* The second Create of the same key: refused, the first value still stored.
C2_Witness ==
    /\ ReduceReturned
    /\ prevOk
    /\ Len(events) = 1
    /\ IsPatch(events[1], create)
    /\ ret.err = errCantCreateExistingInstance
    /\ store[KeyOf(events[1])] = events[1].Patch.JSONPatch

(***************************************************************************)
(* C3: a Save whose key is absent when the replay reaches it makes the     *)
(* call fail, errSavingNonExistentInstance whenever no datastore call      *)
(* failed, and no key is created: the key is absent afterwards unless the  *)
(* store held it before the call.                                          *)
(***************************************************************************)
C3_SaveOnMissing ==
    ReduceReturned =>
        \A k \in 1..Len(events) :
            (IsPatch(events[k], save) /\ ReachedWith(k, FALSE)) =>
                /\ ReduceFailed
                /\ store[KeyOf(events[k])] = pre[KeyOf(events[k])]
                /\ pre[KeyOf(events[k])] = Absent => store[KeyOf(events[k])] = Absent
                /\ ~storeFault => ret.err = errSavingNonExistentInstance

C3_Witness ==
    /\ ReduceReturned
    /\ Len(events) = 1
    /\ IsPatch(events[1], save)
    /\ ret.err = errSavingNonExistentInstance
    /\ store[KeyOf(events[1])] = Absent

(***************************************************************************)
(* C4: Delete never fails by itself.  A call never stops at a Delete       *)
(* unless a datastore call failed; a call of one Delete succeeds whether   *)
(* or not the key is there, leaving the key absent and the other keys as   *)
(* they were; replaying it leaves the store as the first call left it.     *)
(***************************************************************************)
C4_DeleteIdempotent ==
    /\ (ReduceFailed /\ ~storeFault) => ~IsPatch(events[i], delete)
    /\ (ReduceReturned /\ ~storeFault /\ Len(events) = 1 /\ IsPatch(events[1], delete)) =>
            /\ ret.err = NoErr
            /\ store = [pre EXCEPT ![KeyOf(events[1])] = Absent]
            /\ prevOk => store = pre
            /\ pre[KeyOf(events[1])] = Absent => store = pre

\* The second Delete of a key the first one removed.
C4_Witness ==
    /\ ReduceSucceeded
    /\ prevOk
    /\ Len(events) = 1
    /\ IsPatch(events[1], delete)
    /\ store = pre
    /\ \E k \in Keys : store[k] # Absent

(***************************************************************************)
(* C5: after a successful Reduce the store is the pre-call store with the  *)
(* events applied one at a time in the order given (Create: the payload    *)
(* verbatim, Save: MergePatch of the stored value, Delete: removal), and a *)
(* key no event names keeps its value.                                     *)
(***************************************************************************)
C5_SequentialReplay ==
    ReduceSucceeded =>
        LET r == RefRun(pre, events, Len(events))
        IN /\ r.ok
           /\ store = r.store
           /\ \A key \in Keys :
                  (\A k \in 1..Len(events) : KeyOf(events[k]) # key) => store[key] = pre[key]

\* Create then Save of one key, another key untouched; Scenario A's stored value.
C5_Witness ==
    /\ ReduceSucceeded
    /\ Len(events) = 2
    /\ IsPatch(events[1], create)
    /\ events[1].Patch.JSONPatch = DocB2A1
    /\ IsPatch(events[2], save)
    /\ KeyOf(events[1]) = KeyOf(events[2])
    /\ store[KeyOf(events[1])] = ObjB(<< <<"b", Num(2)>> >>)
    /\ \E key \in Keys : key # KeyOf(events[1]) /\ store[key] = DocA1 /\ pre[key] = DocA1

(***************************************************************************)
(* C6: a successful Reduce of n events returns n outcome records, the i-th *)
(* with the Kind, ModelName and EntityID of the i-th event.                *)
(***************************************************************************)
C6_Outcomes ==
    ReduceSucceeded =>
        /\ ~ret.actions.nil
        /\ Len(ret.actions.v) = Len(events)
        /\ \A k \in 1..Len(events) :
              /\ ret.actions.v[k].Type = KindOf(events[k])
              /\ ret.actions.v[k].Model = events[k].ModelName
              /\ ret.actions.v[k].EntityID = events[k].ID

C6_Witness ==
    /\ ReduceSucceeded
    /\ Len(ret.actions.v) = 2
    /\ ret.actions.v[1] = ReduceAction(CoreCreate, "m1", "e1")
    /\ ret.actions.v[2] = ReduceAction(CoreDelete, "m2", "e2")

(***************************************************************************)
(* Claims on Create and on the Save translator, under SpecCodec.           *)
(***************************************************************************)
CreateReturned == cRet # NoCreateReturn
CreateSucceeded == CreateReturned /\ cRet.err = NoErr /\ cRet.panic = NoErr
BytesOf(v) == IF v.t \in {"str", "bytes", "go"} THEN v.b ELSE Bad
\* Create was called with [Create(P), Save(P, C)] of one entity, P and C JSON objects.
SavedP == BytesOf(cActions[1].Current)
SavedC == BytesOf(cActions[2].Current)
SavedPair ==
    /\ Len(cActions) = 2
    /\ SavedP.t = "obj"
    /\ SavedC.t = "obj"
    /\ cActions = CreateThenSave(SavedP, SavedC, jsonMode)
SavedKey == Key("m1", "e1")
\* Applying the patch of the Save event to P gives C; Reduce leaves C at the key.
SaveReproduces ==
    /\ CreateReturned => cRet.panic = NoErr /\ cRet.err \in {NoErr, errWrap}
    /\ CreateSucceeded =>
          LET r == MergePatch(SavedP, cRet.events.v[2].Patch.JSONPatch)
          IN r.err = NoErr /\ Struct(r.val) = Struct(SavedC)
    /\ ReduceReturned =>
          /\ ret.err = NoErr
          /\ Struct(store[SavedKey]) = Struct(SavedC)

\* The translations of actions 1..k-1 all succeeded.
CleanBefore(k) ==
    \A j \in 1..(k - 1) :
        LET r == Translate(cActions[j], jsonMode) IN r.err = NoErr /\ r.panic = NoErr

(***************************************************************************)
(* C7 as claimed: for ALL JSON objects P and C the merge patch saveEvent   *)
(* computes from (P, C), applied to P, gives a value structurally equal to *)
(* C, and Reduce of Create(P), Save(P, C) leaves C at the key.             *)
(***************************************************************************)
C7_Original == SavedPair => SaveReproduces

(***************************************************************************)
(* C7 as amended: the same for all JSON objects P and C where no null      *)
(* occurs in C (a null member of a merge patch means removal, so a null    *)
(* that C holds and P does not is lost).                                   *)
(***************************************************************************)
C7_SaveRoundTrip == (SavedPair /\ ~HasNull(SavedC)) => SaveReproduces

\* P = {"b":2,"a":1} saved as C = {"b":{"a":1}}: a field removed, one replaced by an object.
C7_Witness ==
    /\ SavedPair
    /\ ReduceSucceeded
    /\ SavedP = DocB2A1
    /\ SavedC = ObjB(<< <<"b", DocA1>> >>)
    /\ events[2].Patch.JSONPatch = ObjB(<< <<"a", Null>>, <<"b", DocA1>> >>)
    /\ store[SavedKey] = SavedC

(***************************************************************************)
(* C9 as claimed: an Action whose Type is none of Create, Save, Delete     *)
(* makes Create return an error of a kind of its own, not a data error,    *)
(* and Create does not panic.                                              *)
(***************************************************************************)
UnknownKindAt(k) ==
    /\ ~(cActions[k].Type \in {CoreCreate, CoreSave, CoreDelete})
    /\ CleanBefore(k)

C9_Original ==
    CreateReturned =>
        \A k \in 1..Len(cActions) :
            UnknownKindAt(k) =>
                /\ cRet.panic = NoErr
                /\ ~(cRet.err \in {NoErr, errMarshal, errBadJSONDoc, errWrap})

(***************************************************************************)
(* C9 as amended: such an Action makes Create panic ("unkown action        *)
(* type"): nothing is returned, neither events nor a node nor an error,    *)
(* which sets it apart from the data errors, which are returned.           *)
(***************************************************************************)
C9_UnknownKindPanics ==
    CreateReturned =>
        \A k \in 1..Len(cActions) :
            UnknownKindAt(k) =>
                /\ cRet.panic = panicUnknownAction
                /\ cRet.err = NoErr
                /\ cRet.events = NilSlice
                /\ cRet.node = Nil

\* The unknown kind comes second, after an Action that translated.
C9_Witness ==
    /\ CreateReturned
    /\ Len(cActions) = 2
    /\ cActions[1].Type = CoreDelete
    /\ cActions[2].Type = CoreOther
    /\ cRet.panic = panicUnknownAction

(***************************************************************************)
(* C10: when the translation of an Action returns an error, the Actions    *)
(* before it having translated, Create returns that error and neither an   *)
(* event list nor a node.                                                  *)
(***************************************************************************)
C10_FirstErrorNoPartial ==
    CreateReturned =>
        \A k \in 1..Len(cActions) :
            (CleanBefore(k) /\ Translate(cActions[k], jsonMode).err # NoErr) =>
                /\ cRet.err = Translate(cActions[k], jsonMode).err
                /\ cRet.panic = NoErr
                /\ cRet.events = NilSlice
                /\ cRet.node = Nil

\* The second Action cannot be marshalled, the first one translated.
C10_Witness ==
    /\ CreateReturned
    /\ Len(cActions) = 2
    /\ cActions[1].Type = CoreCreate
    /\ CleanBefore(2)
    /\ cActions[2].Type = CoreSave
    /\ cRet.err = errMarshal
    /\ cRet.events = NilSlice

\* The operationType a core.ActionType is translated to.
OpTypeOf(t) ==
    IF t = CoreCreate THEN create
    ELSE IF t = CoreSave THEN save
    ELSE delete

(***************************************************************************)
(* C11: a successful Create on n Actions returns n Events, the k-th with   *)
(* the EntityID and ModelName of the k-th Action and an operation of the   *)
(* Action's kind on that same EntityID; the record handed to WrapObject    *)
(* for the envelope holds the same n Events in the same order.             *)
(***************************************************************************)
C11_OneEventPerAction ==
    CreateSucceeded =>
        /\ ~cRet.events.nil
        /\ Len(cRet.events.v) = Len(cActions)
        /\ \A k \in 1..Len(cActions) :
              LET ev == cRet.events.v[k]
                  a == cActions[k]
              IN /\ ev.codec = "jsonpatcher"
                 /\ ev.ID = a.EntityID
                 /\ ev.ModelName = a.ModelName
                 /\ a.Type \in {CoreCreate, CoreSave, CoreDelete}
                 /\ ev.Patch.Type = OpTypeOf(a.Type)
                 /\ ev.Patch.EntityID = ev.ID
        /\ cRet.node # Nil
        /\ cRet.node.Patches = cRet.events.v

\* A Create of m1/e1 followed by a Delete of m2/e2.
C11_Witness ==
    /\ CreateSucceeded
    /\ Len(cRet.events.v) = 2
    /\ cActions[1].Type = CoreCreate
    /\ cActions[2].Type = CoreDelete
    /\ cRet.events.v[1].ID = "e1"
    /\ cRet.events.v[1].ModelName = "m1"
    /\ cRet.events.v[2].ID = "e2"
    /\ cRet.events.v[2].Patch = Op(delete, "e2", Nil)
    /\ cRet.node.Patches = cRet.events.v


(***************************************************************************)
(* C13 as claimed: whichever datastore call fails during Reduce            *)
(* (NewTransaction, Has, Get, Put, Delete, Commit), at whatever kind of    *)
(* event, the call ends there and returns the store's own error value.     *)
(***************************************************************************)
C13_Original ==
    storeFault =>
        /\ ReduceReturned
        /\ ret.err \in StoreErrs

(***************************************************************************)
(* C13 as amended: the call ends at the first datastore call that fails    *)
(* and returns the store's own error value, except when the Put of a       *)
(* create fails: then it returns a new error ("error when reducing create  *)
(* event: ...") in its place.  No other path returns that error, and a     *)
(* call that stops at a create never returns the store's write error.      *)
(***************************************************************************)
C13_StoreErrors ==
    /\ storeFault =>
          /\ ReduceReturned
          /\ ret.actions = NilSlice
          /\ ret.err \in StoreErrs \cup {errReducingCreate}
          /\ ret.err = errBegin <=> txnState = "none"
          /\ ret.err = errCommit <=> (txnState # "none" /\ i > Len(events))
          /\ ret.err = errReducingCreate =>
                i <= Len(events) /\ IsPatch(events[i], create)
          /\ ret.err = errWrite =>
                i <= Len(events) /\ (IsPatch(events[i], save) \/ IsPatch(events[i], delete))
          /\ ret.err = errRead =>
                i <= Len(events) /\ (IsPatch(events[i], create) \/ IsPatch(events[i], save))
    /\ (ReduceReturned /\ ret.err \in StoreErrs \cup {errReducingCreate}) => storeFault

\* The Put of the second event, a create, failed after the first event was applied.
C13_Witness ==
    /\ ReduceReturned
    /\ storeFault
    /\ Len(events) = 2
    /\ i = 2
    /\ IsPatch(events[1], delete)
    /\ IsPatch(events[2], create)
    /\ ret.err = errReducingCreate
    /\ store = pre


\* The store s with every stored object rewritten in sorted field order.
Sorted(s) == [k \in Keys |-> Canon(s[k])]
\* The JSON values the store holds, field order forgotten.
StructOf(s) == [k \in Keys |-> Struct(s[k])]
\* The outcome records of a successful replay of es.
OutcomesOf(es) ==
    [k \in 1..Len(es) |-> ReduceAction(KindOf(es[k]), es[k].ModelName, es[k].ID)]

(***************************************************************************)
(* C14: Reduce is deterministic.  With no datastore call failing, what a   *)
(* call returns and the store it leaves are a function of the event list   *)
(* and the store it started from (the replay RefRun), and a replica whose  *)
(* starting store holds the same JSON values in another field order gets   *)
(* the same result and a store holding the same JSON values.               *)
(***************************************************************************)
C14_Deterministic ==
    (ReduceReturned /\ ~storeFault) =>
        LET r == RefRun(pre, events, Len(events))
            r2 == RefRun(Sorted(pre), events, Len(events))
        IN /\ ret.err = r.err
           /\ r.ok => store = r.store /\ ret.actions = Slice(OutcomesOf(events))
           /\ ~r.ok => store = pre /\ ret.actions = NilSlice
           /\ r2.ok = r.ok
           /\ r2.err = r.err
           /\ StructOf(r2.store) = StructOf(r.store)

\* A Save into a value stored with its fields out of sorted order.
C14_Witness ==
    /\ ReduceSucceeded
    /\ Len(events) = 1
    /\ IsPatch(events[1], save)
    /\ events[1].Patch.JSONPatch = PatchSetB
    /\ pre[KeyOf(events[1])] = DocB2A1
    /\ Sorted(pre) # pre
    /\ store[KeyOf(events[1])] = ObjB(<< <<"a", Num(1)>>, <<"b", Num(1)>> >>)


\* The state of the transaction of the call, at each position of the call.
TxnLifecycle ==
    /\ pc = "idle" => txnState = "none"
    /\ pc = "loop" => txnState = "open"
    /\ ReduceSucceeded => txnState = "committed" /\ i = Len(events) + 1
    /\ ReduceFailed => txnState = (IF ret.err = errBegin THEN "none" ELSE "discarded")
    /\ txnState # "open" => txn = EmptyTxn
\* A transaction is opened by the call's first step only, and it ends with the call.
TxnStep ==
    /\ (txnState # "open" /\ txnState' = "open") => (pc # "loop" /\ pc' = "loop" /\ i' = 1)
    /\ (txnState = "open" /\ txnState' # "open") => (pc' = "done" /\ txnState' \in {"committed", "discarded"})
    /\ (txnState = "open" /\ txnState' = "open") => (pc' = "loop" /\ events' = events)
\* Commit is what follows the last event, whatever it returns, and nothing follows it but the return.
CommitStep ==
    /\ (pc = "loop" /\ i > Len(events)) =>
          /\ pc' = "done"
          /\ txnState' = (IF ret'.err = NoErr THEN "committed" ELSE "discarded")
          /\ ret'.err \in {NoErr, errCommit}
    /\ txnState' = "committed" /\ txnState # "committed" => (pc = "loop" /\ i > Len(events))
    /\ (store' # store) => (pc = "loop" /\ i > Len(events) /\ txnState' = "committed")

(***************************************************************************)
(* C15: a Reduce call opens one transaction (none when NewTransaction      *)
(* itself fails) and never returns with it open: it is committed when the  *)
(* call succeeds and discarded on every error return, a failed Commit      *)
(* included; Commit is attempted once, after the last event was applied.   *)
(***************************************************************************)
C15_TxnLifecycle == []TxnLifecycle /\ [][TxnStep /\ CommitStep]_vars

\* A Commit that failed after both events were applied: the transaction is discarded.
C15_Witness ==
    /\ ReduceFailed
    /\ ret.err = errCommit
    /\ Len(events) = 2
    /\ i = 3
    /\ Len(actions) = 2
    /\ txnState = "discarded"
    /\ store = pre


\* events[k] is a patchEvent whose operation type is none of create, save, delete.
UnknownKind(e) == e.codec = "jsonpatcher" /\ ~(e.Patch.Type \in {create, save, delete})
\* events[k] is not a patchEvent.
Foreign(e) == e.codec # "jsonpatcher"
\* The replay gets to event k: the events before it apply and no datastore call fails.
Reaches(k) == ~storeFault /\ RefRun(pre, events, k - 1).ok

(***************************************************************************)
(* C16 as claimed: when the replay reaches an event whose operation type   *)
(* is none of create, save, delete, or an event that is not of this codec, *)
(* the call fails with errUnknownOperation and the store is unchanged.     *)
(***************************************************************************)
C16_Original ==
    ReduceReturned =>
        \A k \in 1..Len(events) :
            ((UnknownKind(events[k]) \/ Foreign(events[k])) /\ Reaches(k)) =>
                /\ ret.err = errUnknownOperation
                /\ ret.actions = NilSlice
                /\ store = pre

(***************************************************************************)
(* C16 as amended: a patchEvent of unknown operation type makes the call   *)
(* fail with errUnknownOperation; an event that is not a patchEvent makes  *)
(* it fail with another error ("event unrecognized for jsonpatcher         *)
(* eventcodec"); in both cases the store is unchanged and no outcome is    *)
(* returned.                                                               *)
(***************************************************************************)
C16_UnknownOperation ==
    ReduceReturned =>
        \A k \in 1..Len(events) :
            /\ (UnknownKind(events[k]) /\ Reaches(k)) =>
                  /\ ret.err = errUnknownOperation
                  /\ ret.actions = NilSlice
                  /\ store = pre
            /\ (Foreign(events[k]) /\ Reaches(k)) =>
                  /\ ret.err = errUnrecognizedEvent
                  /\ ret.actions = NilSlice
                  /\ store = pre

\* An operation of unknown type after a create that applied: the created key is absent.
C16_Witness ==
    /\ ReduceReturned
    /\ Len(events) = 2
    /\ IsPatch(events[1], create)
    /\ UnknownKind(events[2])
    /\ Reaches(2)
    /\ ret.err = errUnknownOperation
    /\ store[KeyOf(events[1])] = Absent


\* Event j is the last one before event k on k's key.
LastOnKeyBefore(j, k) ==
    /\ j < k
    /\ Foreign(events[j]) = FALSE
    /\ KeyOf(events[j]) = KeyOf(events[k])
    /\ \A h \in (j + 1)..(k - 1) : KeyOf(events[h]) # KeyOf(events[k])
\* No event after k names k's key.
LastOnKey(k) == \A h \in (k + 1)..Len(events) : KeyOf(events[h]) # KeyOf(events[k])
\* The call stopped at event k with error err.
StoppedAt(k, err) == ReduceFailed /\ i = k /\ ret.err = err

(***************************************************************************)
(* C17: the existence check of a create and the read of a save see what    *)
(* earlier events of the same call wrote, whatever the store held before   *)
(* the call.  After a create of the key, a create fails with               *)
(* errCantCreateExistingInstance and a save patches the created payload;   *)
(* after a delete of the key, a create goes through with its payload and a *)
(* save fails with errSavingNonExistentInstance.                           *)
(***************************************************************************)
C17_ReadYourWrites ==
    ReduceReturned =>
        \A k \in 1..Len(events) : \A j \in 1..Len(events) :
            (LastOnKeyBefore(j, k) /\ Reaches(k)) =>
                LET key == KeyOf(events[k])
                    merged == MergePatch(events[j].Patch.JSONPatch, events[k].Patch.JSONPatch)
                IN /\ (IsPatch(events[j], create) /\ IsPatch(events[k], create)) =>
                          StoppedAt(k, errCantCreateExistingInstance)
                   /\ (IsPatch(events[j], create) /\ IsPatch(events[k], save)) =>
                          /\ ~StoppedAt(k, errSavingNonExistentInstance)
                          /\ merged.err = NoErr => i > k
                          /\ (merged.err = NoErr /\ ReduceSucceeded /\ LastOnKey(k)) =>
                                 store[key] = merged.val
                   /\ (IsPatch(events[j], delete) /\ IsPatch(events[k], create)) =>
                          /\ i > k
                          /\ (ReduceSucceeded /\ LastOnKey(k)) =>
                                 store[key] = events[k].Patch.JSONPatch
                   /\ (IsPatch(events[j], delete) /\ IsPatch(events[k], save)) =>
                          StoppedAt(k, errSavingNonExistentInstance)

\* A key the store holds is deleted and created again in one call.
C17_Witness ==
    /\ ReduceSucceeded
    /\ Len(events) = 2
    /\ IsPatch(events[1], delete)
    /\ IsPatch(events[2], create)
    /\ KeyOf(events[1]) = KeyOf(events[2])
    /\ pre[KeyOf(events[1])] = DocA1
    /\ store[KeyOf(events[1])] = DocB2A1


(***************************************************************************)
(* The specification of the committed history: Reduce calls one after the  *)
(* other from the empty store, the kind of the last event committed on     *)
(* each key being noted when a call that succeeded returns.                *)
(***************************************************************************)
\* The kind of the last of es[1..n] on key, or what h holds when none names it.
LastKind(h, es, n, key) ==
    LET on == {k \in 1..n : KeyOf(es[k]) = key}
    IN IF on = {} THEN h[key]
       ELSE KindOf(es[CHOOSE k \in on : \A m \in on : m <= k])

Noted(h, es) == [key \in Keys |-> LastKind(h, es, Len(es), key)]

ReduceReturnNoted ==
    /\ ReduceOver
    /\ last' = (IF ret.err = NoErr THEN Noted(last, events) ELSE last)
    /\ UNCHANGED <<other, stamps>>

NextLife ==
    \/ ReduceNew
    \/ ReduceReturnNoted
    \/ \E readErr \in Returns(errRead), writeErr \in Returns(errWrite) : ReduceStep(readErr, writeErr)
    \/ \E commitErr \in Returns(errCommit) : ReduceCommit(commitErr)

SpecLife == Init /\ [][NextLife]_vars

\* The keys of s that are present are those whose last committed event, by h, is a create or a save.
PresentAsNoted(s, h) ==
    \A key \in Keys : (s[key] # Absent) <=> (h[key] \in {CoreCreate, CoreSave})

(***************************************************************************)
(* C18: over any sequence of Reduce calls from the empty store, a key is   *)
(* present exactly when the last event committed on it is a create or a    *)
(* save; in a call that commits, every create comes when the last event    *)
(* committed on its key (in this call or before it) is a delete or there   *)
(* is none, and every save when it is a create or a save.                  *)
(***************************************************************************)
C18_Lifecycle ==
    /\ (pc # "done" \/ ReduceFailed) => PresentAsNoted(store, last)
    /\ ReduceSucceeded =>
          /\ PresentAsNoted(store, Noted(last, events))
          /\ \A k \in 1..Len(events) :
                LET before == LastKind(last, events, k - 1, KeyOf(events[k]))
                IN /\ IsPatch(events[k], create) => ~(before \in {CoreCreate, CoreSave})
                   /\ IsPatch(events[k], save) => before \in {CoreCreate, CoreSave}
                   /\ IsPatch(events[k], create) \/ IsPatch(events[k], save) \/ IsPatch(events[k], delete)

\* A key created in one call, deleted in a second and created again in a third.
C18_Witness ==
    /\ ReduceSucceeded
    /\ Len(events) = 1
    /\ IsPatch(events[1], create)
    /\ last[KeyOf(events[1])] = CoreDelete
    /\ store[KeyOf(events[1])] # Absent
    /\ \E key \in Keys : last[key] = CoreSave /\ store[key] # Absent


(***************************************************************************)
(* The specification of two concurrent calls: two Reduce calls are open at *)
(* the same time on one datastore and their steps interleave.  One call    *)
(* is scheduled and runs on txn, pc, events, ...; the registers of the     *)
(* other are kept in other.  The datastore is the one the component        *)
(* assumes: a read sees what is committed when it is made (txnView), and   *)
(* Commit fails when a call that committed since the transaction was       *)
(* opened wrote a key this transaction wrote.                              *)
(***************************************************************************)
ConcEvents ==
    {PatchEvent(1, inst[2], inst[1], Op(create, inst[2], DocA1)) : inst \in Instances}
    \cup {PatchEvent(1, inst[2], inst[1], Op(save, inst[2], PatchSetB)) : inst \in Instances}
    \cup {PatchEvent(1, inst[2], inst[1], Op(delete, inst[2], Nil)) : inst \in Instances}

ConcLists == UNION {[1..n -> ConcEvents] : n \in 1..MaxEvents}

\* Stores that earlier calls leave: nothing, one entity, both entities.
ConcStores ==
    {EmptyStore,
     [k \in Keys |-> IF k = Key("m1", "e1") THEN DocA1 ELSE Absent],
     [k \in Keys |-> DocA1]}

KeysOf(es) == {KeyOf(es[k]) : k \in 1..Len(es)}

\* The other call committed while this transaction was open, and wrote a key it wrote.
WriteConflict ==
    /\ other.pc = "done"
    /\ other.ret.err = NoErr
    /\ \E key \in KeysOf(other.events) : txn[key] # Untouched

InitConc ==
    /\ store \in ConcStores
    /\ txn = EmptyTxn
    /\ txnState = "none"
    /\ pc = "idle"
    /\ events = << >>
    /\ i = 1
    /\ actions = << >>
    /\ ret = Pending
    /\ pre = store
    /\ prevOk = FALSE
    /\ storeFault = FALSE
    /\ cActions = << >>
    /\ cRet = NoCreateReturn
    /\ jsonMode = FALSE
    /\ other = [NoCall EXCEPT !.pre = store]
    /\ last = NoHistory
    /\ stamps = << >>

\* A caller calls Reduce while the other call, if there is one, has not returned.
ConcCall ==
    /\ pc = "idle"
    /\ other.pc \in {"idle", "loop"}
    /\ \E es \in ConcLists : ReduceCall(es, NoErr)
    /\ UNCHANGED aside

\* The scheduler runs the other call (or lets a second caller in).
Switch ==
    /\ pc # "idle"
    /\ other' = Registers(txn, txnState, pc, events, i, actions, ret, pre, prevOk, storeFault)
    /\ txn' = other.txn
    /\ txnState' = other.txnState
    /\ pc' = other.pc
    /\ events' = other.events
    /\ i' = other.i
    /\ actions' = other.actions
    /\ ret' = other.ret
    /\ pre' = other.pre
    /\ prevOk' = other.prevOk
    /\ storeFault' = other.storeFault
    /\ UNCHANGED <<store, cActions, cRet, jsonMode, last, stamps>>

ConcCommit == ReduceCommit(IF WriteConflict THEN errCommit ELSE NoErr)

NextConc ==
    \/ ConcCall
    \/ Switch
    \/ ReduceStep(NoErr, NoErr)
    \/ ConcCommit

SpecConc == InitConc /\ [][NextConc]_vars

BothReturned == pc = "done" /\ other.pc = "done"
OtherSucceeded == other.pc = "done" /\ other.ret.err = NoErr

(***************************************************************************)
(* C19: when two concurrent Reduce calls have returned, the store is what  *)
(* the calls that committed leave when run one after the other, in one of  *)
(* the two orders, from the store both started on.  Two calls that wrote a *)
(* common key never both commit: not two creates of an absent key, and no  *)
(* save is lost under another.                                             *)
(***************************************************************************)
C19_Serializable ==
    BothReturned =>
        LET n == Len(events)
            m == Len(other.events)
            mine == RefRun(pre, events, n)
            theirs == RefRun(pre, other.events, m)
            mineThenTheirs == RefRun(mine.store, other.events, m)
            theirsThenMine == RefRun(theirs.store, events, n)
        IN /\ pre = other.pre
           /\ (ReduceSucceeded /\ OtherSucceeded) =>
                 /\ \/ mine.ok /\ mineThenTheirs.ok /\ store = mineThenTheirs.store
                    \/ theirs.ok /\ theirsThenMine.ok /\ store = theirsThenMine.store
                 /\ KeysOf(events) \cap KeysOf(other.events) = {}
           /\ (ReduceSucceeded /\ ~OtherSucceeded) => mine.ok /\ store = mine.store
           /\ (~ReduceSucceeded /\ OtherSucceeded) => theirs.ok /\ store = theirs.store
           /\ (~ReduceSucceeded /\ ~OtherSucceeded) => store = pre

\* Two concurrent saves of one key: the first commits, the commit of the second is refused.
C19_Witness ==
    /\ BothReturned
    /\ Len(events) = 1
    /\ Len(other.events) = 1
    /\ IsPatch(events[1], save)
    /\ IsPatch(other.events[1], save)
    /\ KeyOf(events[1]) = KeyOf(other.events[1])
    /\ OtherSucceeded
    /\ ret.err = errCommit
    /\ i = 2
    /\ store[KeyOf(events[1])] = ObjB(<< <<"a", Num(1)>>, <<"b", Num(1)>> >>)


\* The call stopped at a create of a present key, or at a save of an absent one.
FailedOnInstance ==
    /\ ReduceFailed
    /\ ret.err \in {errCantCreateExistingInstance, errSavingNonExistentInstance}
OtherFailedOnInstance ==
    /\ other.pc = "done"
    /\ other.ret.err \in {errCantCreateExistingInstance, errSavingNonExistentInstance}

(***************************************************************************)
(* C12 as claimed: the error of a create on a present key, or of a save on *)
(* an absent one, identifies the (model, entity) of the event that failed: *)
(* two calls that return the same error value failed on the same pair.     *)
(***************************************************************************)
C12_Original ==
    (FailedOnInstance /\ OtherFailedOnInstance /\ ret.err = other.ret.err) =>
        /\ events[i].ModelName = other.events[other.i].ModelName
        /\ events[i].ID = other.events[other.i].ID

(***************************************************************************)
(* C12 as amended: the error is the one value                              *)
(* errCantCreateExistingInstance for every create on a present key and the *)
(* one value errSavingNonExistentInstance for every save on an absent key, *)
(* whatever the model and the entity: it tells the kind of the failure     *)
(* and of the event that failed, not the pair.                             *)
(***************************************************************************)
C12_KindOnly ==
    /\ (ReduceFailed /\ ~storeFault /\ IsPatch(events[i], create)) =>
          ret.err = errCantCreateExistingInstance
    /\ (ReduceFailed /\ ~storeFault /\ IsPatch(events[i], save)) =>
          ret.err \in {errSavingNonExistentInstance, errReducingSave}
    /\ FailedOnInstance =>
          /\ IsPatch(events[i], create) <=> ret.err = errCantCreateExistingInstance
          /\ IsPatch(events[i], save) <=> ret.err = errSavingNonExistentInstance
    /\ (FailedOnInstance /\ OtherFailedOnInstance
          /\ events[i].Patch.Type = other.events[other.i].Patch.Type) =>
          ret.err = other.ret.err

\* Two calls refused with the same error value, for creates of two different entities.
C12_Witness ==
    /\ FailedOnInstance
    /\ OtherFailedOnInstance
    /\ ret.err = errCantCreateExistingInstance
    /\ other.ret.err = errCantCreateExistingInstance
    /\ events[i].ModelName = "m1"
    /\ events[i].ID = "e1"
    /\ other.events[other.i].ModelName = "m2"
    /\ other.events[other.i].ID = "e2"


(***************************************************************************)
(* patchEvent.Time().  A Timestamp is modelled by its nanosecond count     *)
(* since the Unix epoch, negative before it; the int64 that UnixNano       *)
(* returns is modelled with TimeBytes bytes instead of eight, in two's     *)
(* complement.                                                             *)
(***************************************************************************)
TimeBytes == 2

IntRange == 256 ^ TimeBytes
MinInt == 0 - (IntRange \div 2)
MaxInt == (IntRange \div 2) - 1

\* je.Timestamp.UnixNano()
UnixNano(ts) == ((ts - MinInt) % IntRange) + MinInt

\* binary.Write(buf, binary.BigEndian, t): the bytes of t, the most significant first.
BigEndian(t) ==
    LET u == t % IntRange
    IN [j \in 1..TimeBytes |-> (u \div (256 ^ (TimeBytes - j))) % 256]

Time(je) == BigEndian(UnixNano(je.Timestamp))

\* bytes.Compare(a, b) < 0
LexLess(a, b) ==
    \E j \in 1..Len(a) :
        /\ j <= Len(b)
        /\ \A h \in 1..(j - 1) : a[h] = b[h]
        /\ a[j] < b[j]

\* Instants around the epoch, around a byte boundary and at the ends of the range.
TimeSamples == {MinInt, MinInt + 1, 0 - 257, 0 - 256, 0 - 2, 0 - 1, 0, 1, 2, 255, 256, 257, MaxInt - 1, MaxInt}

InitTime ==
    /\ store = EmptyStore
    /\ txn = EmptyTxn
    /\ txnState = "none"
    /\ pc = "idle"
    /\ events \in {<<PatchEvent(t1, "e1", "m1", Op(delete, "e1", Nil)),
                     PatchEvent(t2, "e2", "m2", Op(delete, "e2", Nil))>> :
                       t1 \in TimeSamples, t2 \in TimeSamples}
    /\ i = 1
    /\ actions = << >>
    /\ ret = Pending
    /\ pre = EmptyStore
    /\ prevOk = FALSE
    /\ storeFault = FALSE
    /\ cActions = << >>
    /\ cRet = NoCreateReturn
    /\ jsonMode = FALSE
    /\ other = NoCall
    /\ last = NoHistory
    /\ stamps = << >>

\* Time() is called on each of the events.
TakeTimes ==
    /\ stamps = << >>
    /\ stamps' = [k \in 1..Len(events) |-> Time(events[k])]
    /\ UNCHANGED <<store, txn, txnState, pc, events, i, actions, ret, pre, prevOk, storeFault,
                   cActions, cRet, jsonMode, other, last>>

NextTime == TakeTimes

SpecTime == InitTime /\ [][NextTime]_vars

(***************************************************************************)
(* C20: Time() preserves the order of the Timestamps: of two events, the   *)
(* one with the earlier Timestamp has the Time() bytes that compare less,  *)
(* byte by byte, and equal Timestamps give equal bytes.                    *)
(***************************************************************************)
C20_TimeOrder ==
    stamps # << >> =>
        \A a \in 1..Len(events) : \A b \in 1..Len(events) :
            /\ events[a].Timestamp < events[b].Timestamp => LexLess(stamps[a], stamps[b])
            /\ events[a].Timestamp = events[b].Timestamp => stamps[a] = stamps[b]

====
